---- MODULE Spec2Model ----
(***************************************************************************)
(* dino-rs: the request-dispatch and tenant-lifecycle subsystem.           *)
(*                                                                         *)
(* dino-server/src/lib.rs     AppState (tenant routers + worker registry), *)
(*                            handler, send, update_worker,                *)
(*                            jsworker_execute                             *)
(* dino-server/src/router.rs  SwappableAppRouter (try_new, swap, load),    *)
(*                            AppRouter::match_it                          *)
(* dino-server/src/engine.rs  JsWorker (try_new, run)                      *)
(* dino-server/src/error.rs   AppError -> status code                      *)
(* dino/src/cli/run.rs        RunOpts::execute, async_watch                *)
(*                                                                         *)
(* HTTP tasks, worker threads, the start-up thread and the reload          *)
(* coordinator are interleaved processes; every access to shared memory    *)
(* (the ArcSwap slot, the registry mutex, a crossbeam inbox, a one-shot    *)
(* reply) is one step.                                                     *)
(***************************************************************************)
EXTENDS Integers, Sequences, FiniteSets, TLC

\* ---------------------------------------------------------------- bounds
\* HTTP requests issued in one run (each task runs `handler` once).
NumTasks == 2

\* Event batches the debounced watcher delivers in one run.
MaxReloads == 1

\* ---------------------------------------------------------------- inputs
\* The tenant of `dino run` (run.rs:32, run.rs:81), the only one the
\* coordinator reloads, and a second tenant, as start_server accepts a
\* vector of TenantRouter.
ReloadHost == "localhost"

OtherHost == "tenantb"

AllHosts == {ReloadHost, OtherHost}

\* A Host header that names no registered tenant.
UnknownHost == "nohost"

Tasks == 1..NumTasks

\* Lock-holder id of the reload coordinator (tasks use their own id).
Coord == 0

\* One worker per tenant at start-up, one more per update_worker.
MaxWorkers == Cardinality(AllHosts) + MaxReloads

Workers == 1..MaxWorkers

\* WorkerMessage::Shutdown in an inbox; WorkerMessage::Request(t) is t.
Shutdown == 0

\* The requests the tasks choose from: Host header, method, path, body
\* bytes ("empty", "utf8", or "invalid" = bytes that are no UTF-8).
Requests ==
  { [host |-> ReloadHost,  method |-> "GET",  path |-> "/hello", body |-> "empty"],
    [host |-> ReloadHost,  method |-> "GET",  path |-> "/boom",  body |-> "utf8"],
    [host |-> ReloadHost,  method |-> "POST", path |-> "/hello", body |-> "utf8"],
    [host |-> ReloadHost,  method |-> "GET",  path |-> "/nope",  body |-> "empty"],
    [host |-> ReloadHost,  method |-> "GET",  path |-> "/hello", body |-> "invalid"],
    [host |-> OtherHost,   method |-> "GET",  path |-> "/hello", body |-> "empty"],
    [host |-> UnknownHost, method |-> "GET",  path |-> "/hello", body |-> "empty"] }

\* ProjectRoutes of configuration (tenant, gen): path -> method -> handler
\* name ("" = no handler for the method).  Every generation routes
\* GET /hello to `hello`; /boom is routed to a handler that throws (`boom`),
\* to a name the bundle does not export (`ghost`), or to a handler whose
\* return value is no response object (`bad`).
NoHandler == ""

BoomHandler(cfg) ==
  IF cfg.tenant # ReloadHost THEN "bad"
  ELSE IF cfg.gen = 0 THEN "boom" ELSE "ghost"

ProjectRoutes(cfg) ==
  [p \in {"/hello", "/boom"} |->
     [m \in {"GET", "POST"} |->
        IF p = "/hello"
          THEN (IF m = "GET" THEN "hello" ELSE NoHandler)
          ELSE BoomHandler(cfg)]]

\* What the bundle `code` exports under `name`:
\*   "ok"      an async function returning {status: 200, body: <bundle id>}
\*   "throws"  a function that throws
\*   "badresp" a function whose return value does not convert to Resp
\*   "absent"  no such property
Exports(code, name) ==
  CASE name = "hello" -> "ok"
    [] name = "boom"  -> "throws"
    [] name = "bad"   -> "badresp"
    [] OTHER          -> "absent"

\* ---------------------------------------------------------------- values
NoCode == [tenant |-> "", gen |-> -1, kind |-> "none"]

NoRoutes == [tenant |-> "", gen |-> -1]

NoSnap == [routes |-> NoRoutes, code |-> NoCode]

\* The snapshot try_new seats for tenant h (run.rs:26, router.rs:35-43).
try_new(h) ==
  [routes |-> [tenant |-> h, gen |-> 0],
   code   |-> [tenant |-> h, gen |-> 0, kind |-> "good"]]

NoReq == [host |-> "", method |-> "", path |-> "", body |-> ""]

NoResp == [status |-> 0, code |-> NoCode, worker |-> 0]

VARIABLES
  routers,    \* AppState.routers: host -> the ArcSwap slot's current snapshot
  workers,    \* AppState.workers: host -> worker whose inbox sender is registered (0 = none)
  holders,    \* who holds the `workers` mutex
  started,    \* hosts AppState::new has spawned a worker for
  stateSet,   \* CURRENT_STATE is set and the server accepts requests
  wstate,     \* worker thread: unborn, init, recv, run, stopped, failed, initfail, closed
  wcode,      \* worker thread: the bundle it was spawned with
  wcur,       \* worker thread: the request whose handler it is running (0 = none)
  inbox,      \* worker's crossbeam channel: queued WorkerMessages
  active,     \* worker's interpreter: handler invocations started and not finished
  tpc,        \* HTTP task: idle, load_code, send, enqueue, await, done
  treq,       \* HTTP task: its request
  tsnap,      \* HTTP task: the AppRouter `load` built
  thandler,   \* HTTP task: matched handler name
  ttarget,    \* HTTP task: worker whose sender `send` found in the registry
  treply,     \* HTTP task: one-shot channel: none, pending, sent, closed
  tresp,      \* HTTP task: Resp in the one-shot, then the HTTP response
  cpc,        \* coordinator: watch, swap, update, uw_insert, uw_shutdown, exited
  events,     \* coordinator: event batches received
  pending,    \* coordinator: (code, config) built by get_code_and_config
  cnew,       \* update_worker: the worker just spawned
  cold,       \* update_worker: old_sender's worker
  disk,       \* project directory: config.yml version, and the build cached for the sources
  cfail,      \* history: the step at which a reload returned Err ("" = none)
  rbefore,    \* history: the host's router snapshot and worker when the reload began
  lastkind,   \* history: kind of the last event batch the coordinator received
  hlog,       \* history: enqueues, handler starts and handler ends, in order
  tseen,      \* history: value of `replaced` when the task's request began
  replaced,   \* history: generation of the last update_worker that returned Ok
  rslot,      \* a SwappableAppRouter on its own: the AppRouter in its ArcSwap
  rcfg,       \* history: the ProjectRoutes the AppRouter in the slot was built from
  rpc,        \* its reader: idle, or between the two load_full() of load
  rload,      \* its reader: the AppRouter load assembles
  rmatch,     \* its reader: the last match_it call and what it returned
  rlog,       \* history: try_new, swaps and loads on that router, in order
  epc,        \* one request through the engine: http, assembled, replied, responded, failed, panicked
  ereq,       \* the HTTP request: header map and body
  efun,       \* the handler the bundle exports
  ejsreq,     \* the Req assemble_req built
  eresp,      \* the Resp JsWorker::run returned
  eout        \* the HTTP response the client receives

vars == <<routers, workers, holders, started, stateSet, wstate, wcode, wcur,
          inbox, active, tpc, treq, tsnap, thandler, ttarget, treply, tresp,
          cpc, events, pending, cnew, cold, disk, cfail, rbefore, lastkind,
          hlog, tseen, replaced,
          rslot, rcfg, rpc, rload, rmatch, rlog,
          epc, ereq, efun, ejsreq, eresp, eout>>

serverVars == <<routers, workers, holders, started, stateSet, wstate, wcode,
                wcur, inbox, active, tpc, treq, tsnap, thandler, ttarget,
                treply, tresp, cpc, events, pending, cnew, cold, disk, cfail,
                rbefore, lastkind, hlog, tseen, replaced>>

routerVars == <<rslot, rcfg, rpc, rload, rmatch, rlog>>

engineVars == <<epc, ereq, efun, ejsreq, eresp, eout>>

\* What the server's steps leave alone.
pureVars == <<routerVars, engineVars>>

\* The tenants start_server was given: the keys of AppState.routers.
Hosts == DOMAIN routers

workerVars == <<wstate, wcode, wcur, inbox, active>>

taskVars == <<tpc, treq, tsnap, thandler, ttarget, treply, tresp, tseen>>

coordVars == <<cpc, events, pending, cnew, cold, disk, cfail, rbefore,
               lastkind>>

\* The project directory after the first build_project: config.yml in its
\* version 0, and .build holding the bundle and the config copy of build 0.
FirstBuild == [cfg |-> 0, built |-> 0, kind |-> "good"]

NoBefore == [router |-> NoSnap, worker |-> 0]

\* Everything but the routers start_server is given.
InitRest ==
  /\ workers = [h \in AllHosts |-> 0]
  /\ holders = {}
  /\ started = {}
  /\ stateSet = FALSE
  /\ wstate = [w \in Workers |-> "unborn"]
  /\ wcode = [w \in Workers |-> NoCode]
  /\ wcur = [w \in Workers |-> 0]
  /\ inbox = [w \in Workers |-> <<>>]
  /\ active = [w \in Workers |-> {}]
  /\ tpc = [t \in Tasks |-> "idle"]
  /\ treq = [t \in Tasks |-> NoReq]
  /\ tsnap = [t \in Tasks |-> NoSnap]
  /\ thandler = [t \in Tasks |-> NoHandler]
  /\ ttarget = [t \in Tasks |-> 0]
  /\ treply = [t \in Tasks |-> "none"]
  /\ tresp = [t \in Tasks |-> NoResp]
  /\ cpc = "watch"
  /\ events = 0
  /\ pending = NoSnap
  /\ cnew = 0
  /\ cold = 0
  /\ disk = FirstBuild
  /\ cfail = ""
  /\ rbefore = NoBefore
  /\ lastkind = ""
  /\ hlog = <<>>
  /\ tseen = [t \in Tasks |-> 0]
  /\ replaced = 0

\* No stand-alone router is in use.
RouterIdle ==
  /\ rslot = NoSnap
  /\ rcfg = <<>>
  /\ rpc = "idle"
  /\ rload = NoSnap
  /\ rmatch = {}
  /\ rlog = <<>>

\* No request is followed through the engine.
EngineIdle ==
  /\ epc = "idle"
  /\ ereq = NoReq
  /\ efun = NoHandler
  /\ ejsreq = NoReq
  /\ eresp = NoResp
  /\ eout = NoResp

\* State after RunOpts::execute built the router and spawned async_watch,
\* before start_server runs AppState::new.
InitServer ==
  /\ routers = [h \in {ReloadHost} |-> try_new(h)]
  /\ InitRest

Init == InitServer /\ RouterIdle /\ EngineIdle

\* start_server given two tenants (it takes a Vec<TenantRouter>).
InitTenants ==
  /\ routers = [h \in AllHosts |-> try_new(h)]
  /\ InitRest
  /\ RouterIdle
  /\ EngineIdle

\* ------------------------------------------------------- router (router.rs)
\* ArcSwap::load_full: the snapshot the slot holds at this instant.
load_full(slot) == slot

\* SwappableAppRouter::get_router: builds the matchit router of a
\* configuration; fails when an insert is rejected (conflicting patterns).
get_router_ok(cfg, conflict) == ~conflict

\* AppRouter::match_it on the routes of configuration cfg.
match_it(cfg, method, path) ==
  LET table == ProjectRoutes(cfg) IN
  IF path \notin DOMAIN table
    THEN [ok |-> FALSE, handler |-> NoHandler, err |-> "No route found for path"]
    ELSE IF table[path][method] = NoHandler
      THEN [ok |-> FALSE, handler |-> NoHandler, err |-> "No handler found for method"]
      ELSE [ok |-> TRUE, handler |-> table[path][method], err |-> ""]

\* A body handed on without decoding it.
body_not_decoded(body) == TRUE

\* assemble_req: the body is None when empty, else it must decode as UTF-8.
assemble_req_ok(body) == body # "invalid"

\* AppError::into_response.
into_response(err) ==
  CASE err = "HostNotFound"          -> 404
    [] err = "RoutePathNotFound"     -> 404
    [] err = "RouteMethodNotAllowed" -> 405
    [] OTHER                         -> 500

\* The AppError `handler` returns for a failed step.  get_router, match_it,
\* assemble_req and send all return anyhow::Result, so `?` in `handler`
\* wraps each of their errors as AppError::Anyhow.
handler_error(step) == "Anyhow"

ErrorResponse(step) ==
  [status |-> into_response(handler_error(step)), code |-> NoCode, worker |-> 0]

\* --------------------------------------------------- interpreter (engine.rs)
\* JsWorker::try_new: evaluating the bundle succeeds or fails.
JsWorker_try_new_ok(code) == code.kind = "good"

\* JsWorker::run: handlers.get(name), fun.call, v.finish::<Resp>().
JsWorker_run(code, name, w) ==
  IF Exports(code, name) = "ok"
    THEN [ok |-> TRUE, resp |-> [status |-> 200, code |-> code, worker |-> w]]
    ELSE [ok |-> FALSE, resp |-> NoResp]

\* fun.call starts an invocation in the interpreter; v.finish drives the
\* returned promise to completion before run returns.
call_started(act, t) == act \cup {t}

\* run returns without driving the promise to completion.
promise_left_pending(act, t) == act

finish(act, t) == act \ {t}

\* ------------------------------------------------------------- channels
\* The receiver of a worker's inbox exists until its thread returns.
RxAlive(w) == wstate[w] \in {"init", "recv", "run"}

QueuedRequests(q) == {q[i] : i \in DOMAIN q} \ {Shutdown}

\* Dropped Request messages whose one-shot senders stay alive.
replies_left_open(rep, S) == rep

\* Dropping Request messages drops their one-shot senders.
CloseReplies(rep, S) == [t \in Tasks |-> IF t \in S THEN "closed" ELSE rep[t]]

\* A fresh worker id for a thread about to be spawned.
NewWorker == 1 + Cardinality({w \in Workers : wstate[w] # "unborn"})

\* The registry mutex.
LockFree == holders = {}

Log(ev, t, w) == Append(hlog, [ev |-> ev, t |-> t, w |-> w])

\* ------------------------------------------------- start-up (lib.rs 72-161)
\* One iteration of the loop of AppState::new: load().code, spawn the
\* worker thread, insert its sender under the lock.
AppState_new_spawn(h) ==
  /\ ~stateSet
  /\ h \notin started
  /\ LockFree
  /\ LET w == NewWorker IN
       /\ wstate' = [wstate EXCEPT ![w] = "init"]
       /\ wcode' = [wcode EXCEPT ![w] = load_full(routers[h]).code]
       /\ workers' = [workers EXCEPT ![h] = w]
  /\ started' = started \cup {h}
  /\ UNCHANGED <<routers, holders, stateSet, wcur, inbox, active, taskVars,
                 coordVars, hlog, replaced>>
  /\ UNCHANGED pureVars

\* CURRENT_STATE.set(state); start_server then serves requests.
AppState_new_set ==
  /\ ~stateSet
  /\ started = Hosts
  /\ stateSet' = TRUE
  /\ UNCHANGED <<routers, workers, holders, started, workerVars, taskVars,
                 coordVars, hlog, replaced>>
  /\ UNCHANGED pureVars

\* ------------------------------------------------ HTTP task (lib.rs 91-206)
\* `handler` returns the response: its locals (the loaded AppRouter, the
\* match, the one-shot receiver) are dropped.
Finish(t, resp) ==
  /\ tpc' = [tpc EXCEPT ![t] = "done"]
  /\ tresp' = [tresp EXCEPT ![t] = resp]
  /\ tsnap' = [tsnap EXCEPT ![t] = NoSnap]
  /\ thandler' = [thandler EXCEPT ![t] = NoHandler]
  /\ ttarget' = [ttarget EXCEPT ![t] = 0]
  /\ treply' = [treply EXCEPT ![t] = "none"]

\* Tasks are interchangeable: they start in the order of their ids.
\* handler up to the first load_full of SwappableAppRouter::load
\* (router.rs:56): the host is looked up in `routers`, the routes are cloned.
handler_start(t, r) ==
  /\ stateSet
  /\ tpc[t] = "idle"
  /\ \A u \in Tasks : u < t => tpc[u] # "idle"
  /\ treq' = [treq EXCEPT ![t] = r]
  /\ tseen' = [tseen EXCEPT ![t] = replaced]
  /\ IF r.host \notin Hosts
       THEN Finish(t, ErrorResponse("get_router"))
       ELSE /\ tsnap' = [tsnap EXCEPT ![t].routes = load_full(routers[r.host]).routes]
            /\ tpc' = [tpc EXCEPT ![t] = "load_code"]
            /\ UNCHANGED <<tresp, thandler, ttarget, treply>>
  /\ UNCHANGED <<routers, workers, holders, started, stateSet, workerVars,
                 coordVars, hlog, replaced>>
  /\ UNCHANGED pureVars

\* Matching against the slot's current routes instead of the loaded ones.
routes_of_live_slot(t) == load_full(routers[treq[t].host]).routes

\* router.match_it(..) in `handler`: `router` is the AppRouter `load`
\* returned, which owns a clone of the routes.
matched_routes(t) == tsnap[t].routes

\* The second load_full of `load` (router.rs:57), then match_it and
\* assemble_req on the AppRouter it returned.
handler_load_code(t) ==
  /\ tpc[t] = "load_code"
  /\ LET r == treq[t]
         m == match_it(matched_routes(t), r.method, r.path) IN
       IF ~m.ok
         THEN Finish(t, ErrorResponse("match_it"))
         ELSE IF ~assemble_req_ok(r.body)
           THEN Finish(t, ErrorResponse("assemble_req"))
           ELSE /\ tsnap' = [tsnap EXCEPT ![t].code = load_full(routers[r.host]).code]
                /\ thandler' = [thandler EXCEPT ![t] = m.handler]
                /\ tpc' = [tpc EXCEPT ![t] = "send"]
                /\ UNCHANGED <<tresp, ttarget, treply>>
  /\ UNCHANGED <<routers, workers, holders, started, stateSet, workerVars,
                 treq, tseen, coordVars, hlog, replaced>>
  /\ UNCHANGED pureVars

\* A registry lock that excludes nobody.
lock_not_exclusive(t) == TRUE

\* AppState::send, its first two statements: lock the registry and look
\* the host's sender up.
send_may_lock(t) == LockFree

send_lock(t) ==
  /\ tpc[t] = "send"
  /\ send_may_lock(t)
  /\ LET w == workers[treq[t].host] IN
       IF w = 0
         THEN \* "Worker not found": the guard is dropped on return
              /\ Finish(t, ErrorResponse("send"))
              /\ UNCHANGED holders
         ELSE /\ holders' = holders \cup {t}
              /\ ttarget' = [ttarget EXCEPT ![t] = w]
              /\ tpc' = [tpc EXCEPT ![t] = "enqueue"]
              /\ UNCHANGED <<tresp, tsnap, thandler, treply>>
  /\ UNCHANGED <<routers, workers, started, stateSet, workerVars, treq, tseen,
                 coordVars, hlog, replaced>>
  /\ UNCHANGED pureVars

\* new_request creates the one-shot; send.send(msg) puts the Request on the
\* inbox.  A send on a channel whose receiver is gone fails and drops the
\* message (the error is only logged).
send_enqueue(t) ==
  /\ tpc[t] = "enqueue"
  /\ LET w == ttarget[t] IN
       IF RxAlive(w)
         THEN /\ inbox' = [inbox EXCEPT ![w] = Append(@, t)]
              /\ treply' = [treply EXCEPT ![t] = "pending"]
              /\ hlog' = Log("enq", t, w)
         ELSE /\ treply' = [treply EXCEPT ![t] = "closed"]
              /\ hlog' = Log("undelivered", t, w)
              /\ UNCHANGED inbox
  /\ tpc' = [tpc EXCEPT ![t] = "await"]
  /\ UNCHANGED <<routers, workers, holders, started, stateSet, wstate, wcode,
                 wcur, active, treq, tsnap, thandler, ttarget, tresp, tseen,
                 coordVars, replaced>>
  /\ UNCHANGED pureVars

\* Who holds the registry lock once `send` has returned.
send_release(t) == holders \ {t}

\* recv.recv() returns: the Resp, or an error when the one-shot sender was
\* dropped.  `send` returns and its MutexGuard is dropped.
send_recv(t) ==
  /\ tpc[t] = "await"
  /\ treply[t] \in {"sent", "closed"}
  /\ holders' = send_release(t)
  /\ IF treply[t] = "sent"
       THEN Finish(t, tresp[t])
       ELSE Finish(t, ErrorResponse("send"))
  /\ UNCHANGED <<routers, workers, started, stateSet, workerVars, treq, tseen,
                 coordVars, hlog, replaced>>
  /\ UNCHANGED pureVars

\* ------------------------------------- worker thread (lib.rs 209-226)
\* A thread function that never returns.
thread_keeps_running(w, how, dropped) ==
  UNCHANGED <<wstate, wcur, inbox, treply>>

\* The thread function returns: its receiver is dropped, and with it every
\* message still queued and the request it was running.
WorkerExit(w, how, dropped) ==
  /\ wstate' = [wstate EXCEPT ![w] = how]
  /\ wcur' = [wcur EXCEPT ![w] = 0]
  /\ inbox' = [inbox EXCEPT ![w] = <<>>]
  /\ treply' = CloseReplies(treply, QueuedRequests(inbox[w]) \cup dropped)

\* JsWorker::try_new(&code).context(..)?
jsworker_init(w) ==
  /\ wstate[w] = "init"
  /\ IF JsWorker_try_new_ok(wcode[w])
       THEN /\ wstate' = [wstate EXCEPT ![w] = "recv"]
            /\ UNCHANGED <<wcur, inbox, treply>>
       ELSE WorkerExit(w, "initfail", {})
  /\ UNCHANGED <<routers, workers, holders, started, stateSet, wcode, active,
                 tpc, treq, tsnap, thandler, ttarget, tresp, tseen, coordVars,
                 hlog, replaced>>
  /\ UNCHANGED pureVars

\* Senders of w's inbox: the registry entry, and new_send and old_sender
\* while update_worker holds them.
SenderAlive(w) ==
  \/ \E h \in Hosts : workers[h] = w
  \/ cpc = "uw_insert" /\ cnew = w
  \/ cpc = "uw_shutdown" /\ cold = w

\* The message recv.recv() hands to the loop.
inbox_head(q) == Head(q)

\* The message is read but left in the channel.
message_not_removed(q) == q

inbox_rest(q) == Tail(q)

\* recv.recv() returns a message (or Err once every sender is gone); a
\* Request starts worker.run with fun.call, Shutdown returns Ok(()).
jsworker_recv(w) ==
  /\ wstate[w] = "recv"
  /\ IF inbox[w] = <<>>
       THEN /\ ~SenderAlive(w)
            /\ WorkerExit(w, "closed", {})
            /\ UNCHANGED <<active, hlog>>
       ELSE LET msg == inbox_head(inbox[w]) IN
            IF msg = Shutdown
              THEN /\ WorkerExit(w, "stopped", {})
                   /\ UNCHANGED <<active, hlog>>
              ELSE /\ wstate' = [wstate EXCEPT ![w] = "run"]
                   /\ wcur' = [wcur EXCEPT ![w] = msg]
                   /\ inbox' = [inbox EXCEPT ![w] = inbox_rest(@)]
                   /\ active' = [active EXCEPT ![w] = call_started(@, msg)]
                   /\ hlog' = Log("start", msg, w)
                   /\ UNCHANGED treply
  /\ UNCHANGED <<routers, workers, holders, started, stateSet, wcode, tpc,
                 treq, tsnap, thandler, ttarget, tresp, tseen, coordVars,
                 replaced>>
  /\ UNCHANGED pureVars

\* req.send.send(resp) succeeds while the one-shot receiver exists: the
\* task that created it is still in recv.recv().
reply_send_ok(t) == tpc[t] = "await"

\* A failed reply send that ends the thread.
reply_error_returns == "return"

\* if let Err(e) = req.send.send(resp) { error!(..) }: logged, the loop
\* goes on.
on_reply_error == "log"

\* worker.run returns: Ok(resp) is sent on the one-shot (or discarded when
\* its receiver is gone) and the loop goes on; Err leaves jsworker_execute
\* through `?`.
jsworker_run(w) ==
  /\ wstate[w] = "run"
  /\ LET t == wcur[w]
         r == JsWorker_run(wcode[w], thandler[t], w) IN
       IF r.ok
         THEN /\ active' = [active EXCEPT ![w] = finish(@, t)]
              /\ IF reply_send_ok(t)
                   THEN /\ hlog' = Log("end", t, w)
                        /\ treply' = [treply EXCEPT ![t] = "sent"]
                        /\ tresp' = [tresp EXCEPT ![t] = r.resp]
                        /\ wstate' = [wstate EXCEPT ![w] = "recv"]
                        /\ wcur' = [wcur EXCEPT ![w] = 0]
                        /\ UNCHANGED inbox
                   ELSE /\ hlog' = Log("discarded", t, w)
                        /\ UNCHANGED tresp
                        /\ IF on_reply_error = "log"
                             THEN /\ wstate' = [wstate EXCEPT ![w] = "recv"]
                                  /\ wcur' = [wcur EXCEPT ![w] = 0]
                                  /\ UNCHANGED <<inbox, treply>>
                             ELSE WorkerExit(w, "failed", {})
         ELSE /\ hlog' = Log("error", t, w)
              /\ active' = [active EXCEPT ![w] = {}]
              /\ WorkerExit(w, "failed", {t})
              /\ UNCHANGED tresp
  /\ UNCHANGED <<routers, workers, holders, started, stateSet, wcode, tpc,
                 treq, tsnap, thandler, ttarget, tseen, coordVars, replaced>>
  /\ UNCHANGED pureVars

\* ------------------------------- reload coordinator (run.rs 47-93)
\* An event batch: no ts, js or config.yml path in it; a watch error; a
\* batch after edits of the sources (and of config.yml); a batch after an
\* edit of config.yml alone.
EventKinds == {"ignored", "watch_error", "reload", "config_only"}

ReloadKinds == {"reload", "config_only"}

BuildResults == {"ok", "build_failed"}

BundleKinds == {"good", "broken"}

\* The (code, config) get_code_and_config returns for the g-th batch.
Built(g, kind, conflict) ==
  [routes |-> [tenant |-> ReloadHost, gen |-> g],
   code   |-> [tenant |-> ReloadHost, gen |-> g, kind |-> kind],
   conflict |-> conflict]

\* The two steps of a reload, in the order async_watch runs them
\* (run.rs:76 then run.rs:79-83).
update_before_swap == <<"update", "swap">>

reload_order == <<"swap", "update">>

\* Where the coordinator goes after `step` of a reload: the next step, or
\* back to stream.next() once both are done.
StepAfter(step) ==
  IF reload_order[1] = step THEN reload_order[2] ELSE "watch"

\* The locals of a loop iteration (code, config) end with the iteration.
PendingAfter(step) ==
  IF StepAfter(step) = "watch" THEN NoSnap ELSE pending

\* async_watch returns (an Err left it through `?`): its locals are gone.
CoordExit ==
  /\ cpc' = "exited"
  /\ pending' = NoSnap

\* A rebuild on every batch, whatever paths it names.
reload_on_any_batch(kind) == TRUE

\* need_reload: some path of the batch ends with config.yml or has the
\* extension ts or js.
need_reload(kind) == kind \in ReloadKinds

\* calc_project_hash reads the ts, js and json files only: an edit of
\* config.yml alone leaves the hash as it was.
hash_changed(kind) == kind = "reload"

\* The project directory after the edits behind the g-th batch and the
\* build_project that follows: a changed hash makes it bundle and copy
\* config.yml next to the bundle; an unchanged one finds <hash>.mjs and
\* returns at once, leaving .build as it was.
build_project(d, kind, g, bundle) ==
  IF hash_changed(kind)
    THEN [cfg |-> g, built |-> g, kind |-> bundle]
    ELSE [d EXCEPT !.cfg = g]

\* get_code_and_config: the bundle build_project names, and the config
\* read from the .yml next to it (filename.replace(".mjs", ".yml")).
get_code_and_config(d, conflict) == Built(d.built, d.kind, conflict)

\* stream.next() yields an event batch; need_reload is computed; on reload
\* get_code_and_config()? builds the project and loads its config.  A batch
\* without a ts, js or config.yml path, or a watch error, changes nothing.
async_watch_event(kind) ==
  /\ cpc = "watch"
  /\ lastkind' = kind
  /\ IF ~need_reload(kind)
       THEN UNCHANGED <<cpc, pending, events, disk, cfail, rbefore>>
       ELSE /\ events < MaxReloads
            /\ events' = events + 1
            /\ rbefore' = [router |-> routers[ReloadHost],
                           worker |-> workers[ReloadHost]]
            /\ \E built \in BuildResults :
                 IF built # "ok"
                   THEN /\ CoordExit
                        /\ cfail' = "build"
                        /\ disk' = [disk EXCEPT !.cfg = events + 1]
                   ELSE /\ cpc' = reload_order[1]
                        /\ UNCHANGED cfail
                        /\ \E bundle \in BundleKinds, conflict \in BOOLEAN :
                             /\ disk' = build_project(disk, kind, events + 1, bundle)
                             /\ pending' = get_code_and_config(
                                              disk', conflict /\ hash_changed(kind))
  /\ UNCHANGED <<routers, workers, holders, started, stateSet, workerVars,
                 taskVars, cnew, cold, hlog, replaced>>
  /\ UNCHANGED pureVars

\* router.swap(code, config.routes)?: get_router, then ArcSwap::store.
swap ==
  /\ cpc = "swap"
  /\ IF get_router_ok(pending.routes, pending.conflict)
       THEN /\ routers' = [routers EXCEPT ![ReloadHost] =
                             [routes |-> pending.routes, code |-> pending.code]]
            /\ cpc' = StepAfter("swap")
            /\ pending' = PendingAfter("swap")
            /\ UNCHANGED cfail
       ELSE /\ CoordExit
            /\ cfail' = "swap"
            /\ UNCHANGED routers
  /\ UNCHANGED <<workers, holders, started, stateSet, workerVars, taskVars,
                 events, cnew, cold, disk, rbefore, lastkind, hlog, replaced>>
  /\ UNCHANGED pureVars

\* An update_worker that does not wait for the registry lock.
update_worker_skips_lock == TRUE

\* update_worker, its first statement: self.workers.lock().
update_worker_may_lock == LockFree

\* A worker respawned with the bundle of the worker it replaces.
code_of_registered_worker == wcode[workers[ReloadHost]]

\* self.routers.get(host).context(..)?.load().code: the coordinator is the
\* only writer of the slot, so both load_full calls of `load` see the
\* same snapshot.
update_worker_code == load_full(routers[ReloadHost]).code

\* thread::Builder::spawn(..)?: the OS starts the thread or refuses to.
SpawnResults == {"ok", "spawn_failed"}

\* AppState::get_current(); update_worker: lock the registry, load().code,
\* spawn the new worker thread.  A failed spawn returns Err through `?`
\* (the guard is dropped) and ends async_watch.
update_worker_lock ==
  /\ cpc = "update"
  /\ IF ~stateSet
       THEN /\ cpc' = StepAfter("update")
            /\ pending' = PendingAfter("update")
            /\ rbefore' = NoBefore
            /\ UNCHANGED <<holders, wstate, wcode, cnew, cfail>>
       ELSE /\ update_worker_may_lock
            /\ \E spawned \in SpawnResults :
                 IF spawned = "ok"
                   THEN /\ UNCHANGED <<pending, cfail, rbefore>>
                        /\ holders' = holders \cup {Coord}
                        /\ LET w == NewWorker IN
                             /\ wstate' = [wstate EXCEPT ![w] = "init"]
                             /\ wcode' = [wcode EXCEPT ![w] = update_worker_code]
                             /\ cnew' = w
                        /\ cpc' = "uw_insert"
                   ELSE /\ CoordExit
                        /\ cfail' = "spawn"
                        /\ UNCHANGED <<holders, wstate, wcode, cnew, rbefore>>
  /\ UNCHANGED <<routers, workers, started, stateSet, wcur, inbox, active,
                 taskVars, events, cold, disk, lastkind, hlog, replaced>>
  /\ UNCHANGED pureVars

\* The new sender stored under another tenant's key.
insert_under_other_host(reg, host, w) ==
  [reg EXCEPT ![CHOOSE h \in AllHosts : h # host] = w]

\* The registry entry update_worker leaves for the host.
registry_insert(reg, host, w) == [reg EXCEPT ![host] = w]

\* workers.insert(host, new_send) returns the old sender.
update_worker_insert ==
  /\ cpc = "uw_insert"
  /\ cold' = workers[ReloadHost]
  /\ workers' = registry_insert(workers, ReloadHost, cnew)
  /\ cpc' = "uw_shutdown"
  /\ UNCHANGED <<routers, holders, started, stateSet, workerVars, taskVars,
                 events, pending, cnew, disk, cfail, rbefore, lastkind, hlog,
                 replaced>>
  /\ UNCHANGED pureVars

\* old_sender.send(Shutdown) (its error ignored), old_sender and the guard
\* are dropped, update_worker returns Ok and the loop iteration ends.
update_worker_shutdown ==
  /\ cpc = "uw_shutdown"
  /\ IF cold # 0 /\ RxAlive(cold)
       THEN inbox' = [inbox EXCEPT ![cold] = Append(@, Shutdown)]
       ELSE UNCHANGED inbox
  /\ holders' = holders \ {Coord}
  /\ replaced' = pending.code.gen
  /\ cpc' = StepAfter("update")
  /\ pending' = PendingAfter("update")
  /\ cnew' = 0
  /\ cold' = 0
  /\ rbefore' = NoBefore
  /\ UNCHANGED <<routers, workers, started, stateSet, wstate, wcode, wcur,
                 active, taskVars, events, disk, cfail, lastkind, hlog>>
  /\ UNCHANGED pureVars

\* ------------------------------------------------------------ the system
Next ==
  \/ \E h \in Hosts : AppState_new_spawn(h)
  \/ AppState_new_set
  \/ \E t \in Tasks, r \in Requests : handler_start(t, r)
  \/ \E t \in Tasks : handler_load_code(t)
  \/ \E t \in Tasks : send_lock(t)
  \/ \E t \in Tasks : send_enqueue(t)
  \/ \E t \in Tasks : send_recv(t)
  \/ \E w \in Workers : jsworker_init(w)
  \/ \E w \in Workers : jsworker_recv(w)
  \/ \E w \in Workers : jsworker_run(w)
  \/ \E kind \in EventKinds : async_watch_event(kind)
  \/ swap
  \/ update_worker_lock
  \/ update_worker_insert
  \/ update_worker_shutdown

Spec == Init /\ [][Next]_vars

\* The same server started with two tenants.
SpecTenants == InitTenants /\ [][Next]_vars

\* One worker thread: whichever statement of jsworker_execute it is at.
jsworker_execute(w) == jsworker_init(w) \/ jsworker_recv(w) \/ jsworker_run(w)

\* ------------------------- jsworker_execute against any peer of its channel
\* Handler names a Request may carry.
HandlerNames == {"hello", "boom"}

\* Some holder of the inbox sender builds a Request (new_request) and sends
\* it.
peer_send(t, name) ==
  /\ tpc[t] = "idle"
  /\ \A u \in Tasks : u < t => tpc[u] # "idle"
  /\ workers[ReloadHost] # 0
  /\ RxAlive(workers[ReloadHost])
  /\ tpc' = [tpc EXCEPT ![t] = "await"]
  /\ thandler' = [thandler EXCEPT ![t] = name]
  /\ treply' = [treply EXCEPT ![t] = "pending"]
  /\ inbox' = [inbox EXCEPT ![workers[ReloadHost]] = Append(@, t)]
  /\ hlog' = Log("enq", t, workers[ReloadHost])
  /\ UNCHANGED <<routers, workers, holders, started, stateSet, wstate, wcode,
                 wcur, active, treq, tsnap, ttarget, tresp, tseen, coordVars,
                 replaced>>
  /\ UNCHANGED pureVars

\* The holder of a request's one-shot receiver drops it, before or after
\* the worker replied.
peer_drop_reply(t) ==
  /\ tpc[t] = "await"
  /\ tpc' = [tpc EXCEPT ![t] = "done"]
  /\ UNCHANGED <<routers, workers, holders, started, stateSet, workerVars,
                 treq, tsnap, thandler, ttarget, treply, tresp, tseen,
                 coordVars, hlog, replaced>>
  /\ UNCHANGED pureVars

\* The last sender of the inbox is dropped.
peer_drop_sender ==
  /\ workers[ReloadHost] # 0
  /\ workers' = [workers EXCEPT ![ReloadHost] = 0]
  /\ UNCHANGED <<routers, holders, started, stateSet, workerVars, taskVars,
                 coordVars, hlog, replaced>>
  /\ UNCHANGED pureVars

NextWorker ==
  \/ \E h \in Hosts : AppState_new_spawn(h)
  \/ \E w \in Workers : jsworker_init(w)
  \/ \E w \in Workers : jsworker_recv(w)
  \/ \E w \in Workers : jsworker_run(w)
  \/ \E t \in Tasks, name \in HandlerNames : peer_send(t, name)
  \/ \E t \in Tasks : peer_drop_reply(t)
  \/ peer_drop_sender

SpecWorker == Init /\ [][NextWorker]_vars

\* Worker threads are OS threads: one that can take a step eventually does.
SpecThreads ==
  Init /\ [][Next]_vars /\ \A w \in Workers : WF_vars(jsworker_execute(w))

\* One HTTP task inside AppState::send: lock, enqueue, recv.recv().
AppState_send(t) == send_lock(t) \/ send_enqueue(t) \/ send_recv(t)

\* The coordinator inside update_worker, past the spawn.
AppState_update_worker == update_worker_insert \/ update_worker_shutdown

\* Worker threads, the tokio tasks running `handler` and the coordinator
\* inside update_worker all keep running: none of them stops for ever at a
\* statement it can execute.
SpecLive ==
  /\ Init
  /\ [][Next]_vars
  /\ \A w \in Workers : WF_vars(jsworker_execute(w))
  /\ \A t \in Tasks : WF_vars(AppState_send(t))
  /\ WF_vars(AppState_update_worker)

\* ------------------------------ SwappableAppRouter on its own (router.rs)
\* Operations made on the router after try_new.
MaxRouterOps == 3

\* A segment of a path pattern: literal text or a named capture `{name}`.
Lit(s) == [kind |-> "lit", name |-> s]

Param(s) == [kind |-> "param", name |-> s]

\* /api/{name}/{id}
ApiNameId == <<Lit("api"), Param("name"), Param("id")>>

\* /api/hello/{id}
ApiHelloId == <<Lit("api"), Lit("hello"), Param("id")>>

\* /api/{x}/{id}
ApiXId == <<Lit("api"), Param("x"), Param("id")>>

\* /hello
HelloPath == <<Lit("hello")>>

RouterMethods == {"GET", "POST"}

\* A ProjectRoute.
Route(m, h) == [method |-> m, handler |-> h]

\* One entry of ProjectRoutes = IndexMap<String, Vec<ProjectRoute>>.
Entry(p, ms) == [path |-> p, methods |-> ms]

\* The ProjectRoutes values given to try_new and swap: two over the patterns
\* of the router tests (the second changes a handler and drops a route),
\* one with two patterns that differ in a capture name only, one that lists
\* a method twice.
RouteConfigs ==
  { <<Entry(ApiHelloId, <<Route("GET", "hello")>>),
      Entry(ApiNameId, <<Route("GET", "hello"), Route("POST", "hello")>>)>>,
    <<Entry(ApiHelloId, <<Route("GET", "hello2")>>),
      Entry(HelloPath, <<Route("POST", "handler2")>>)>>,
    <<Entry(ApiNameId, <<Route("GET", "hello")>>),
      Entry(ApiXId, <<Route("GET", "hello2")>>)>>,
    <<Entry(HelloPath, <<Route("GET", "hello"), Route("GET", "hello2")>>)>> }

RouterCodes == {"code1", "code2"}

\* Concrete request paths, split at `/`.
RouterPaths ==
  { <<"api", "hello", "2">>, <<"api", "goodbye", "2">>, <<"hello">>,
    <<"nope">> }

\* MethodRoute::default(): no handler for any method.
MethodRoute_default == [m \in RouterMethods |-> NoHandler]

\* Router::new().
EmptyRouter == [p \in {} |-> MethodRoute_default]

EmptyAppRouter == [routes |-> EmptyRouter, code |-> ""]

NoMatch == [method |-> "", path |-> <<>>, result |-> {}]

\* The inner loop of get_router: each ProjectRoute overwrites the field of
\* its method.
RECURSIVE set_methods(_, _)
set_methods(methods, method_route) ==
  IF methods = <<>>
    THEN method_route
    ELSE set_methods(Tail(methods),
                     [method_route EXCEPT ![Head(methods).method] = Head(methods).handler])

\* Two patterns that match the same paths: equal but for capture names.
SameShape(p, q) ==
  /\ Len(p) = Len(q)
  /\ \A i \in 1..Len(p) :
       /\ p[i].kind = q[i].kind
       /\ p[i].kind = "lit" => p[i].name = q[i].name

\* Router::insert returns Err(InsertError::Conflict).
insert_conflicts(router, pat) == \E q \in DOMAIN router : SameShape(q, pat)

\* Router::insert returns Ok.
insert(router, pat, value) ==
  [q \in DOMAIN router \cup {pat} |-> IF q = pat THEN value ELSE router[q]]

\* The outer loop of get_router, from the entries not yet inserted and the
\* router built so far; `?` returns at the first rejected insert.
RECURSIVE get_router_from(_, _)
get_router_from(routes, router) ==
  IF routes = <<>>
    THEN [ok |-> TRUE, routes |-> router]
    ELSE IF insert_conflicts(router, Head(routes).path)
      THEN [ok |-> FALSE, routes |-> router]
      ELSE get_router_from(Tail(routes),
                           insert(router, Head(routes).path,
                                  set_methods(Head(routes).methods, MethodRoute_default)))

\* SwappableAppRouter::get_router.
get_router(routes) == get_router_from(routes, EmptyRouter)

\* The pattern matches the path segment by segment.
Matches(pat, path) ==
  /\ Len(pat) = Len(path)
  /\ \A i \in 1..Len(pat) : pat[i].kind = "lit" => pat[i].name = path[i]

\* Of two patterns matching one path, matchit takes the one that is literal
\* where they first differ.
Prefers(p, q) ==
  \E i \in 1..Len(p) :
    /\ p[i].kind = "lit"
    /\ q[i].kind = "param"
    /\ \A k \in 1..(i - 1) : p[k].kind = q[k].kind

\* A capture bound to the last segment of the path.
capture_last(path, i) == path[Len(path)]

\* The text a capture at position i is bound to.
capture(path, i) == path[i]

\* Match.params: capture name -> bound text.
Params(pat, path) ==
  [n \in {pat[i].name : i \in {k \in 1..Len(pat) : pat[k].kind = "param"}} |->
     capture(path, CHOOSE i \in 1..Len(pat) : pat[i] = Param(n))]

\* self.routes.at(path): the patterns matchit selects.
Router_at(router, path) ==
  LET hits == {p \in DOMAIN router : Matches(p, path)} IN
    {p \in hits : ~\E q \in hits : q # p /\ Prefers(q, p)}

\* AppRouter::match_it: the Ok(Match) values it can return (none: Err).
AppRouter_match_it(router, method, path) ==
  {[value |-> router[p][method], params |-> Params(p, path), pattern |-> p] :
     p \in {q \in Router_at(router, path) : router[q][method] # NoHandler}}

\* A swap that leaves the slot as it was.
store_skipped(old, code, r) == old

\* A swap that stores whatever get_router had built.
store_before_check(old, code, r) == [routes |-> r.routes, code |-> code]

\* swap: `get_router(routes)?` returns before the store when it fails.
swap_result(old, code, r) ==
  IF r.ok THEN [routes |-> r.routes, code |-> code] ELSE old

\* One event of the router's history.
RouterEvent(op, cfg, code, snap) ==
  [op |-> op, cfg |-> cfg, code |-> code, snap |-> snap]

\* SwappableAppRouter::try_new(code, routes) returned Ok.
InitRouter ==
  /\ InitServer
  /\ EngineIdle
  /\ \E cfg \in RouteConfigs, code \in RouterCodes :
       /\ get_router(cfg).ok
       /\ rslot = [routes |-> get_router(cfg).routes, code |-> code]
       /\ rcfg = cfg
       /\ rlog = <<RouterEvent("try_new", cfg, code,
                               [routes |-> get_router(cfg).routes, code |-> code])>>
  /\ rpc = "idle"
  /\ rload = EmptyAppRouter
  /\ rmatch = NoMatch

\* SwappableAppRouter::swap(code, routes), from any thread.
SwappableAppRouter_swap(code, cfg) ==
  /\ Len(rlog) <= MaxRouterOps
  /\ LET r == get_router(cfg)
         new == swap_result(rslot, code, r) IN
       /\ rslot' = new
       /\ rcfg' = IF r.ok THEN cfg ELSE rcfg
       /\ rlog' = Append(rlog, RouterEvent(IF r.ok THEN "swap_ok" ELSE "swap_err",
                                           cfg, code, new))
  /\ UNCHANGED <<rpc, rload, rmatch, serverVars, engineVars>>

\* load, first load_full(): the routes of the new AppRouter.
SwappableAppRouter_load_routes ==
  /\ rpc = "idle"
  /\ Len(rlog) <= MaxRouterOps
  /\ rpc' = "loading"
  /\ rload' = [routes |-> load_full(rslot).routes, code |-> ""]
  /\ rmatch' = NoMatch
  /\ rlog' = Append(rlog, RouterEvent("load", <<>>, "", rslot))
  /\ UNCHANGED <<rslot, rcfg, serverVars, engineVars>>

\* load, second load_full(): its code; load returns.
SwappableAppRouter_load_code ==
  /\ rpc = "loading"
  /\ rpc' = "idle"
  /\ rload' = [rload EXCEPT !.code = load_full(rslot).code]
  /\ rlog' = Append(rlog, RouterEvent("load_end", <<>>, "",
                                      [rload EXCEPT !.code = load_full(rslot).code]))
  /\ UNCHANGED <<rslot, rcfg, rmatch, serverVars, engineVars>>

\* app_router.match_it(method, path) on the AppRouter load returned.
SwappableAppRouter_match(method, path) ==
  /\ rpc = "idle"
  /\ rload # EmptyAppRouter
  /\ rmatch' = [method |-> method, path |-> path,
                result |-> AppRouter_match_it(rload.routes, method, path)]
  /\ UNCHANGED <<rslot, rcfg, rpc, rload, rlog, serverVars, engineVars>>

NextRouter ==
  \/ \E code \in RouterCodes, cfg \in RouteConfigs : SwappableAppRouter_swap(code, cfg)
  \/ SwappableAppRouter_load_routes
  \/ SwappableAppRouter_load_code
  \/ \E m \in RouterMethods, p \in RouterPaths : SwappableAppRouter_match(m, p)

SpecRouter == InitRouter /\ [][NextRouter]_vars

\* --------------------- one request through the engine (lib.rs, engine.rs)
\* Header maps of the HTTP request and of a Resp: sets of (name, value).
HeaderMaps == SUBSET {<<"accept", "text/plain">>, <<"x-id", "7">>}

\* Request bodies: empty, UTF-8 text, bytes that are not UTF-8.
Bodies == {"", "text", "invalid"}

\* Option<String>.
None == [some |-> FALSE, v |-> ""]

Some(v) == [some |-> TRUE, v |-> v]

\* JavaScript values of a body field.
JsNull == [type |-> "null", v |-> ""]

JsString(v) == [type |-> "string", v |-> v]

\* The handlers a bundle may export:
\*   identity_async  async (req) => ({status: 200, headers: req.headers, body: req.body})
\*   identity_sync   the same function without `async`
\*   status42        async () => ({status: 42, headers: {}, body: null})
\*   status700       async () => ({status: 700, headers: {}, body: null})
\*   throws          async () => { throw new Error() }
HandlerKinds ==
  {"identity_async", "identity_sync", "status42", "status700", "throws"}

EngineNoReq == [headers |-> {}, body |-> None]

EngineNoResp == [ok |-> FALSE, status |-> 0, headers |-> {}, body |-> None]

EngineNoOut == [status |-> 0, headers |-> {}, body |-> ""]

\* assemble_req: headers(HashMap::new()); the body is None when empty, else
\* String::from_utf8 of it, whose error `?` returns.
assemble_req(http) ==
  IF http.body = "invalid"
    THEN [ok |-> FALSE, req |-> EngineNoReq]
    ELSE [ok |-> TRUE,
          req |-> [headers |-> {},
                   body |-> IF http.body = "" THEN None ELSE Some(http.body)]]

\* derive(IntoJs) for Req: obj.set of each field.
Req_into_js(req) ==
  [headers |-> req.headers,
   body |-> IF req.body.some THEN JsString(req.body.v) ELSE JsNull]

\* fun.call((req,)): what the JavaScript function returns.
\*   kind "promise": a promise that resolves to `value`
\*   kind "value":   `value` itself
\*   kind "rejected": a promise that rejects
fun_call(fun, jsreq) ==
  CASE fun = "identity_async" ->
         [kind |-> "promise", value |-> [status |-> 200, headers |-> jsreq.headers, body |-> jsreq.body]]
    [] fun = "identity_sync" ->
         [kind |-> "value", value |-> [status |-> 200, headers |-> jsreq.headers, body |-> jsreq.body]]
    [] fun = "status42" ->
         [kind |-> "promise", value |-> [status |-> 42, headers |-> {}, body |-> JsNull]]
    [] fun = "status700" ->
         [kind |-> "promise", value |-> [status |-> 700, headers |-> {}, body |-> JsNull]]
    [] OTHER ->
         [kind |-> "rejected", value |-> [status |-> 0, headers |-> {}, body |-> JsNull]]

\* derive(FromJs) for Resp: obj.get of status: u16, headers, body:
\* Option<String>.
Resp_from_js(value) ==
  IF value.status \in 0..65535
    THEN [ok |-> TRUE, status |-> value.status, headers |-> value.headers,
          body |-> IF value.body.type = "string" THEN Some(value.body.v) ELSE None]
    ELSE EngineNoResp

\* JsWorker::run: `let v: Promise = fun.call((req,))?` takes a promise only;
\* v.finish::<Resp>()? fails when it rejects or its value does not convert.
Engine_run(fun, req) ==
  LET ret == fun_call(fun, Req_into_js(req)) IN
    IF ret.kind = "promise" THEN Resp_from_js(ret.value) ELSE EngineNoResp

\* Response::builder().status(..): http::StatusCode takes 100..=999.
status_accepted(status) == status \in 100..999

\* impl From<Resp> for Response: builder.body(..).unwrap() panics when the
\* builder holds an error.
Response_from(resp) ==
  IF status_accepted(resp.status)
    THEN [panic |-> FALSE,
          out |-> [status |-> resp.status, headers |-> resp.headers,
                   body |-> IF resp.body.some THEN resp.body.v ELSE ""]]
    ELSE [panic |-> TRUE, out |-> EngineNoOut]

\* AppError::Anyhow rendered by into_response.
EngineErrorOut ==
  [status |-> into_response(handler_error("send")), headers |-> {}, body |-> ""]

\* An HTTP request matched to a handler of the bundle.
InitEngine ==
  /\ InitServer
  /\ RouterIdle
  /\ epc = "http"
  /\ ereq \in [headers : HeaderMaps, body : Bodies]
  /\ efun \in HandlerKinds
  /\ ejsreq = EngineNoReq
  /\ eresp = EngineNoResp
  /\ eout = EngineNoOut

\* handler: assemble_req(..)?.
engine_assemble_req ==
  /\ epc = "http"
  /\ IF assemble_req(ereq).ok
       THEN /\ ejsreq' = assemble_req(ereq).req
            /\ epc' = "assembled"
            /\ UNCHANGED eout
       ELSE /\ eout' = EngineErrorOut
            /\ epc' = "responded"
            /\ UNCHANGED ejsreq
  /\ UNCHANGED <<ereq, efun, eresp, serverVars, routerVars>>

\* jsworker_execute: worker.run(&req.handler, req.req)?, then the reply.
engine_run ==
  /\ epc = "assembled"
  /\ eresp' = Engine_run(efun, ejsreq)
  /\ epc' = IF Engine_run(efun, ejsreq).ok THEN "replied" ELSE "worker_exited"
  /\ UNCHANGED <<ereq, efun, ejsreq, eout, serverVars, routerVars>>

\* handler: Ok(Response::from(resp)).
engine_response ==
  /\ epc = "replied"
  /\ IF Response_from(eresp).panic
       THEN /\ epc' = "panicked"
            /\ UNCHANGED eout
       ELSE /\ epc' = "responded"
            /\ eout' = Response_from(eresp).out
  /\ UNCHANGED <<ereq, efun, ejsreq, eresp, serverVars, routerVars>>

\* handler: state.send(..)? fails on the closed one-shot.
engine_error_response ==
  /\ epc = "worker_exited"
  /\ epc' = "responded"
  /\ eout' = EngineErrorOut
  /\ UNCHANGED <<ereq, efun, ejsreq, eresp, serverVars, routerVars>>

NextEngine ==
  \/ engine_assemble_req
  \/ engine_run
  \/ engine_response
  \/ engine_error_response

SpecEngine == InitEngine /\ [][NextEngine]_vars

\* ============================================================== claims
\* Tasks past `load`, still holding the AppRouter it returned.
HoldsSnapshot(t) == tpc[t] \in {"send", "enqueue", "await"}

\* Requests every configuration routes to a handler every bundle exports
\* as a well-behaved function (GET /hello -> hello).
RoutedToOkHandler(r) ==
  /\ r.host \in AllHosts
  /\ \A g \in 0..MaxReloads :
       LET cfg == [tenant |-> r.host, gen |-> g]
           m == match_it(cfg, r.method, r.path) IN
       m.ok /\ Exports([tenant |-> r.host, gen |-> g, kind |-> "good"], m.handler) = "ok"

Answered(t) == tpc[t] = "await" /\ treply[t] = "sent"

\* C1: under any interleaving of swap and load, the AppRouter every load()
\* returns has its routes and its code from one and the same snapshot, one
\* that try_new or a completed swap installed.
C1_LoadReturnsOneSnapshot ==
  \A t \in Tasks :
    HoldsSnapshot(t) =>
      /\ tsnap[t].routes.tenant = tsnap[t].code.tenant
      /\ tsnap[t].routes.gen = tsnap[t].code.gen
      /\ tsnap[t].routes.gen \in 0..events

\* C2: when a handler invocation fails inside a worker, the client of that
\* request sees a 500, and the worker survives: the next request enqueued
\* for the host on that worker's inbox is executed by it and answered
\* normally.
C2_WorkerSurvivesHandlerError ==
  \A i \in DOMAIN hlog :
    hlog[i].ev = "error" =>
      /\ tpc[hlog[i].t] = "done" => tresp[hlog[i].t].status = 500
      /\ \A j \in DOMAIN hlog :
           LET u == hlog[j].t IN
           ( /\ j > i
             /\ hlog[j].ev \in {"enq", "undelivered"}
             /\ hlog[j].w = hlog[i].w
             /\ RoutedToOkHandler(treq[u])
             /\ tpc[u] = "done" )
           => /\ tresp[u].status = 200
              /\ tresp[u].worker = hlog[i].w

\* C3: every host with an entry in the worker registry maps to an inbox
\* that exactly one live worker thread consumes.
C3_RegistryEntryHasLiveWorker ==
  \A h \in AllHosts :
    workers[h] # 0 =>
      Cardinality({w \in Workers : w = workers[h] /\ RxAlive(w)}) = 1

\* Workers update_worker spawned (start-up spawns one per tenant first).
IsReplacement(w) == w > Cardinality(Hosts)

RequestBehindShutdown(q) ==
  \E i, j \in DOMAIN q : i < j /\ q[i] = Shutdown /\ q[j] # Shutdown

\* C4: a request whose registry lookup happens after update_worker inserted
\* the new inbox is enqueued on the new inbox and answered by the new
\* worker; no Request is ever enqueued behind an inbox's Shutdown.
C4_RoutedToNewWorkerAndAnswered ==
  /\ \A w \in Workers : ~RequestBehindShutdown(inbox[w])
  /\ \A t \in Tasks :
       (tpc[t] = "await" /\ IsReplacement(ttarget[t])) =>
         /\ ttarget[t] = workers[treq[t].host]
         /\ treply[t] # "closed"
         /\ treply[t] = "sent" => tresp[t].worker = ttarget[t]

\* A reload is under way, or has happened, since task t loaded its routes.
ReloadDuringFlight(t) ==
  \/ cpc \in {"swap", "update", "uw_insert", "uw_shutdown"}
  \/ routers[ReloadHost].routes.gen > tsnap[t].routes.gen

\* Every bundle built so far evaluates, so the handlers of the old bundle
\* exist in the new one.
BundlesEvaluate ==
  /\ routers[ReloadHost].code.kind = "good"
  /\ pending.code.kind # "broken"
  /\ \A w \in Workers : wcode[w].kind # "broken"

\* C5: when a hot reload happens while requests for a handler of both the
\* old and the new bundle are in flight, each of them completes with the
\* old bundle's or the new bundle's response; none gets an error response
\* or no response.
C5_InFlightAnsweredByOldOrNew ==
  \A t \in Tasks :
    ( /\ tpc[t] = "await"
      /\ treply[t] \in {"sent", "closed"}
      /\ RoutedToOkHandler(treq[t])
      /\ BundlesEvaluate
      /\ ReloadDuringFlight(t) )
    => /\ treply[t] = "sent"
       /\ tresp[t].status = 200
       /\ tresp[t].code.tenant = treq[t].host
       /\ tresp[t].code.gen \in 0..events

\* C6 as stated: every request initiated after swap returned Ok is
\* answered by the new bundle's code, never by the old bundle's.
C6_AfterSwapAnsweredByNewCode ==
  \A t \in Tasks :
    (Answered(t) /\ treq[t].host = ReloadHost) =>
      tresp[t].code.gen >= tsnap[t].routes.gen

\* C6 as amended: a request initiated after the reload's update_worker
\* returned Ok is never answered by the old bundle's code: every handler
\* response it receives comes from the new bundle (or a later one).
C6_AfterReplaceAnsweredByNewCode ==
  \A t \in Tasks :
    ( /\ treq[t].host = ReloadHost
      /\ Answered(t) \/ (tpc[t] = "done" /\ tresp[t].status = 200) )
    => tresp[t].code.gen >= tseen[t]

C6_Witness ==
  \E t \in Tasks :
    /\ tpc[t] = "done"
    /\ treq[t].host = ReloadHost
    /\ tseen[t] >= 1
    /\ tresp[t].status = 200
    /\ tresp[t].code.gen = tseen[t]

\* C7: in every reload swap completes before update_worker begins: the
\* host's worker is never replaced while the router still holds the
\* pre-reload snapshot.
C7_SwapBeforeUpdateWorker ==
  cpc \in {"update", "uw_insert", "uw_shutdown"} =>
    /\ routers[ReloadHost].routes = pending.routes
    /\ routers[ReloadHost].code = pending.code

C7_Witness ==
  /\ cpc = "uw_shutdown"
  /\ workers[ReloadHost] = cnew
  /\ cold # 0
  /\ routers[ReloadHost].code = pending.code
  /\ wcode[cnew] = pending.code

\* The tasks of the log's events of kind ev at worker w, in order.
TasksOf(w, evs) ==
  LET sel == SelectSeq(hlog, LAMBDA e : e.w = w /\ e.ev \in evs) IN
  [i \in DOMAIN sel |-> sel[i].t]

\* C8: a worker executes and answers requests strictly in the order they
\* were enqueued on its inbox: the handler of an earlier request has
\* finished before the handler of a later one starts.
C8_ServedInEnqueueOrder ==
  \A w \in Workers :
    LET enq == TasksOf(w, {"enq"})
        run == TasksOf(w, {"start"})
        fin == TasksOf(w, {"end", "error"}) IN
    /\ Len(run) <= Len(enq)
    /\ \A i \in DOMAIN run : run[i] = enq[i]
    /\ Len(fin) <= Len(run) /\ Len(run) <= Len(fin) + 1
    /\ \A i \in DOMAIN fin : fin[i] = run[i]

C8_Witness ==
  \E w \in Workers :
    /\ Len(TasksOf(w, {"enq"})) = 2
    /\ Len(TasksOf(w, {"end"})) = 2

\* C9: at most one handler executes per worker at a time.
C9_OneHandlerPerWorker ==
  \A w \in Workers : Cardinality(active[w]) <= 1

C9_Witness ==
  \E w \in Workers, t, u \in Tasks :
    /\ active[w] = {t}
    /\ wstate[w] = "run"
    /\ u # t
    /\ tpc[u] = "send"
    /\ workers[treq[u].host] = w

\* C10: no lock is held by an HTTP task while it waits for the worker's
\* reply.
C10_NoLockWhileAwaitingReply ==
  \A t \in Tasks : tpc[t] = "await" => t \notin holders

\* C11: unrelated tenants do not block each other: while a request of
\* tenant A is queued or executing in A's worker, a request of tenant B can
\* take its step into B's inbox, and update_worker for B can proceed,
\* without waiting for A's request to finish.
C11_TenantsDoNotBlockEachOther ==
  \A t \in Tasks :
    (tpc[t] = "await" /\ treply[t] = "pending") =>
      /\ \A u \in Tasks :
           (tpc[u] = "send" /\ treq[u].host # treq[t].host) => send_may_lock(u)
      /\ (cpc = "update" /\ stateSet /\ treq[t].host # ReloadHost)
           => update_worker_may_lock

NoPathMatch(r) ==
  \A g \in 0..MaxReloads :
    match_it([tenant |-> r.host, gen |-> g], r.method, r.path).err
      = "No route found for path"

\* Requests whose path every configuration knows, without a handler for
\* the method.
NoMethodMatch(r) ==
  \A g \in 0..MaxReloads :
    match_it([tenant |-> r.host, gen |-> g], r.method, r.path).err
      = "No handler found for method"

\* C13: a request whose host has no registered router is answered with
\* status 404, not 500.
C13_UnknownHostIs404 ==
  \A t \in Tasks :
    (tpc[t] = "done" /\ treq[t].host \notin Hosts) => tresp[t].status = 404

\* C14: for a registered host, a request whose path matches no path
\* pattern of the snapshot is answered with status 404.
C14_NoPathMatchIs404 ==
  \A t \in Tasks :
    (tpc[t] = "done" /\ treq[t].host \in Hosts /\ NoPathMatch(treq[t]))
      => tresp[t].status = 404

\* C15: for a registered host, a request whose path matches a pattern
\* without a handler for the request's method is answered with status 405.
C15_NoMethodMatchIs405 ==
  \A t \in Tasks :
    (tpc[t] = "done" /\ treq[t].host \in Hosts /\ NoMethodMatch(treq[t]))
      => tresp[t].status = 405

\* C16: when a reload of the running server fails at one of its steps, the
\* host's live router snapshot and registered worker are what they were
\* when it began.
C16_FailedReloadKeepsPreviousState ==
  (cfail # "" /\ rbefore.worker # 0) =>
    /\ routers[ReloadHost] = rbefore.router
    /\ workers[ReloadHost] = rbefore.worker

\* C17: after a reload attempt failed in get_code_and_config (bundling or
\* config load), the coordinator is still watching for the next change.
C17_CoordinatorSurvivesBuildError ==
  cfail = "build" => cpc = "watch"

\* C18: once the swap of a reload has completed, config.yml-only reloads
\* included, the host's live snapshot holds the routes of the config.yml
\* on disk.
C18_ConfigChangeInstalled ==
  cpc \in {"update", "uw_insert", "uw_shutdown"} =>
    routers[ReloadHost].routes.gen = disk.cfg

\* C19: a worker that received Shutdown has run to completion and answered
\* every Request that was enqueued on its inbox.
C19_ShutdownAfterAllAnswered ==
  \A w \in Workers :
    wstate[w] = "stopped" => TasksOf(w, {"enq"}) = TasksOf(w, {"end"})

C19_Witness ==
  \E w \in Workers :
    /\ wstate[w] = "stopped"
    /\ Len(TasksOf(w, {"enq"})) >= 1

\* C20: with several tenants, every successful response to a request for
\* host h comes from a worker started with a bundle of h's router.
C20_ServedByOwnTenantsBundle ==
  \A t \in Tasks :
    (tpc[t] \in {"await", "done"} /\ tresp[t].status = 200) =>
      /\ tresp[t].code.tenant = treq[t].host
      /\ wcode[tresp[t].worker].tenant = treq[t].host

C20_Witness ==
  \E t, u \in Tasks :
    /\ tpc[t] = "done" /\ treq[t].host = ReloadHost /\ tresp[t].status = 200
    /\ tpc[u] = "done" /\ treq[u].host = OtherHost /\ tresp[u].status = 200
    /\ IsReplacement(tresp[t].worker)

\* Worker threads that have returned.
Exited(w) == wstate[w] \in {"stopped", "failed", "initfail", "closed"}

\* Spawned workers whose inbox no longer has a sender: update_worker has
\* replaced them and dropped old_sender.
OldWorker(w) == wstate[w] # "unborn" /\ ~SenderAlive(w)

\* C28: after update_worker replaced a worker, the old worker thread
\* eventually exits.
C28_ReplacedWorkerExits ==
  \A w \in Workers : OldWorker(w) ~> Exited(w)

C28_Witness ==
  \E w \in Workers :
    /\ OldWorker(w)
    /\ wstate[w] = "stopped"
    /\ workers[ReloadHost] # 0
    /\ workers[ReloadHost] # w

\* C30: a batch without a ts, js or config.yml path causes no rebuild: the
\* coordinator goes back to waiting, and the router snapshot, the worker
\* registry and every inbox are left as they were.
C30_IgnoredBatchChangesNothing ==
  [][(lastkind' # lastkind /\ lastkind' \notin ReloadKinds) =>
       /\ cpc' = "watch"
       /\ UNCHANGED <<routers, workers, inbox, wstate, pending, events, disk>>]_vars

C30_Witness ==
  /\ lastkind = "ignored"
  /\ stateSet
  /\ workers[ReloadHost] # 0
  /\ events = 0

\* The log has an event ev of request t.
Logged(ev, t) == \E k \in DOMAIN hlog : hlog[k].ev = ev /\ hlog[k].t = t

\* No handler call has failed: the thread did not leave through `?`.
NoScriptError == \A k \in DOMAIN hlog : hlog[k].ev # "error"

\* C27: when the reply receiver of a request is gone at the time its handler
\* finishes, the handler was run, the response is discarded, and the worker
\* goes on with its inbox: it has not exited because of the failed send, and
\* every request enqueued to it is still queued or was started.
C27_DroppedReceiverIsDiscarded ==
  \A i \in DOMAIN hlog :
    (hlog[i].ev = "discarded" /\ NoScriptError) =>
      LET w == hlog[i].w IN
        /\ \E k \in 1..(i - 1) : hlog[k] = [ev |-> "start", t |-> hlog[i].t, w |-> w]
        /\ tresp[hlog[i].t] = NoResp
        /\ wstate[w] \in {"recv", "run", "closed"}
        /\ \A j \in DOMAIN hlog :
             (hlog[j].ev = "enq" /\ hlog[j].w = w) =>
               \/ hlog[j].t \in QueuedRequests(inbox[w])
               \/ Logged("start", hlog[j].t)

\* A response was discarded and the request enqueued behind it was served
\* by the same worker afterwards.
C27_Witness ==
  \E i, j \in DOMAIN hlog :
    /\ i < j
    /\ hlog[i].ev = "discarded"
    /\ hlog[j].ev = "end"
    /\ hlog[j].w = hlog[i].w
    /\ treply[hlog[j].t] = "sent"

\* Event k of the router's history seated a snapshot in the slot.
Seated(k) == rlog[k].op \in {"try_new", "swap_ok"}

\* The last event up to i that seated a snapshot.
LastSeated(i) ==
  CHOOSE k \in 1..i : Seated(k) /\ \A n \in (k + 1)..i : ~Seated(n)

\* The event at which the load that ended at event j read the routes.
LoadStart(j) ==
  CHOOSE i \in 1..(j - 1) :
    rlog[i].op = "load" /\ \A n \in (i + 1)..(j - 1) : rlog[n].op # "load"

\* Two routers answer every match_it call alike.
SameMatches(r1, r2) ==
  \A m \in RouterMethods, p \in RouterPaths :
    AppRouter_match_it(r1, m, p) = AppRouter_match_it(r2, m, p)

\* C22: a load that starts after swap(code, routes) returned Ok, and before
\* the next swap that returns Ok, returns routes that match exactly as the
\* routes given to that swap do.
C22_LoadAfterSwapMatchesNewRoutes ==
  \A j \in DOMAIN rlog :
    rlog[j].op = "load_end" =>
      LET k == LastSeated(LoadStart(j)) IN
        SameMatches(rlog[j].snap.routes, get_router(rlog[k].cfg).routes)

\* A load that followed a successful swap: GET /api/hello/2, mapped to hello
\* before, matches hello2, and POST /api/goodbye/2, routed only before, has
\* no match.
C22_Witness ==
  /\ Len(rlog) = 4
  /\ rlog[2].op = "swap_ok"
  /\ rlog[4].op = "load_end"
  /\ \E r \in AppRouter_match_it(rlog[1].snap.routes, "GET", <<"api", "hello", "2">>) :
       r.value = "hello"
  /\ AppRouter_match_it(rlog[1].snap.routes, "POST", <<"api", "goodbye", "2">>) # {}
  /\ rmatch.method = "GET"
  /\ rmatch.path = <<"api", "hello", "2">>
  /\ \E r \in rmatch.result : r.value = "hello2"
  /\ AppRouter_match_it(rload.routes, "POST", <<"api", "goodbye", "2">>) = {}

\* C23: match_it returns at most one match, the same whenever it is called on
\* the same AppRouter; the match carries the handler registered for the
\* method under the matched pattern, and binds each capture of the pattern
\* to the segment of the path in the same position, so /api/{name}/{id} on
\* /api/goodbye/2 gives exactly {name: goodbye, id: 2}.
C23_MatchBindsCapturesByPosition ==
  rmatch # NoMatch =>
    /\ Cardinality(rmatch.result) <= 1
    /\ rmatch.result = AppRouter_match_it(rload.routes, rmatch.method, rmatch.path)
    /\ \A r \in rmatch.result :
         /\ r.value = rload.routes[r.pattern][rmatch.method]
         /\ \A i \in 1..Len(r.pattern) :
              r.pattern[i].kind = "param" =>
                r.params[r.pattern[i].name] = rmatch.path[i]
         /\ (r.pattern = ApiNameId /\ rmatch.path = <<"api", "goodbye", "2">>) =>
              r.params = [name |-> "goodbye", id |-> "2"]

\* POST /api/goodbye/2 was matched by /api/{name}/{id}.
C23_Witness ==
  /\ rmatch.method = "POST"
  /\ rmatch.path = <<"api", "goodbye", "2">>
  /\ \E r \in rmatch.result : r.pattern = ApiNameId /\ r.value = "hello"

\* Bijections of 1..n.
Perms(n) ==
  {f \in [1..n -> 1..n] : \A a, b \in 1..n : a # b => f[a] # f[b]}

\* The sequence s read in the order f.
Permuted(s, f) == [i \in 1..Len(s) |-> s[f[i]]]

\* The entry with its (method, handler) list in any order.
EntryOrders(e) ==
  {Entry(e.path, Permuted(e.methods, g)) : g \in Perms(Len(e.methods))}

\* The configuration with its path entries, and the list under each, in any
\* order.
Reorderings(cfg) ==
  {c \in [1..Len(cfg) -> UNION {EntryOrders(cfg[i]) : i \in 1..Len(cfg)}] :
     \E f \in Perms(Len(cfg)) : \A i \in 1..Len(cfg) : c[i] \in EntryOrders(cfg[f[i]])}

\* C26: the router built from any reordering of the configuration in the
\* slot answers every match_it call as the router in the slot does.
C26_EntryOrderDoesNotAffectMatching ==
  \A c \in Reorderings(rcfg) :
    get_router(c).ok => SameMatches(get_router(c).routes, rslot.routes)

\* C29: a swap that returned an error left the slot as it was, and a load
\* made after it, with no successful swap since, returns the routes and the
\* code of the snapshot seated before it.
C29_FailedSwapLeavesHolderUnchanged ==
  \A e \in DOMAIN rlog :
    rlog[e].op = "swap_err" =>
      LET k == LastSeated(e)
          before == [routes |-> get_router(rlog[k].cfg).routes, code |-> rlog[k].code] IN
        /\ rlog[e].snap = before
        /\ \A j \in DOMAIN rlog :
             (/\ rlog[j].op = "load_end"
              /\ LoadStart(j) > e
              /\ LastSeated(j) = k) => rlog[j].snap = before

\* A swap failed on conflicting patterns and a load made after it returned
\* the earlier snapshot.
C29_Witness ==
  /\ Len(rlog) = 4
  /\ rlog[2].op = "swap_err"
  /\ rlog[2].code # rlog[1].code
  /\ rlog[4].op = "load_end"
  /\ rload = rlog[1].snap

\* The request has run its course: answered, or its task panicked.
EngineDone == epc \in {"responded", "panicked"}

\* C21: for the identity handler and a request whose body is UTF-8, the
\* response carries the headers and the body of the HTTP request.
C21_IdentityHandlerEchoesRequest ==
  (epc = "responded" /\ efun = "identity_async" /\ ereq.body # "invalid") =>
    /\ eout.status = 200
    /\ eout.headers = ereq.headers
    /\ eout.body = ereq.body

\* C24: a handler that returns its response object synchronously gives the
\* Resp that the handler returning a promise of the same object gives.
C24_SyncReturnAccepted ==
  (efun = "identity_sync" /\ epc \in {"replied", "worker_exited"}) =>
    /\ eresp.ok
    /\ eresp = Engine_run("identity_async", ejsreq)

\* C25: a returned status outside 100..599 ends as a 500 response, with the
\* worker still running and the HTTP task not aborted.
C25_StatusOutOfRangeIs500 ==
  (efun \in {"status42", "status700"} /\ EngineDone) =>
    /\ epc = "responded"
    /\ eresp.ok
    /\ eout.status = 500

\* No task is inside AppState::send with the registry locked.
NoRequestInSend == \A t \in Tasks : tpc[t] \notin {"enqueue", "await"}

\* C31: update_worker changes the registry, and enqueues Shutdown on an
\* inbox, only when no request is inside send awaiting its reply; the inbox
\* that receives Shutdown holds no Request message at that moment.
C31_UpdateWorkerExcludesSend ==
  [][/\ (stateSet /\ workers' # workers) => NoRequestInSend
     /\ \A w \in Workers :
          inbox'[w] = Append(inbox[w], Shutdown) =>
            /\ NoRequestInSend
            /\ QueuedRequests(inbox[w]) = {}]_vars

\* Shutdown has been enqueued on the old worker's inbox while a request
\* stands before the registry lock.
C31_Witness ==
  \E w \in Workers, t \in Tasks :
    /\ inbox[w] # <<>>
    /\ inbox[w][Len(inbox[w])] = Shutdown
    /\ workers[ReloadHost] # w
    /\ tpc[t] = "send"
    /\ treq[t].host = ReloadHost

\* Requests `handler` gives up before state.send: no router for the host,
\* no match for method and path, or a body that is not UTF-8.
FailsBeforeDispatch(r) ==
  \/ r.host \notin Hosts
  \/ NoPathMatch(r)
  \/ NoMethodMatch(r)
  \/ r.body = "invalid"

\* Task t returns from `handler` in this step without having called send.
ReturnsBeforeSend(t) ==
  /\ tpc[t] \in {"idle", "load_code"}
  /\ tpc'[t] = "done"

\* C32: a request that fails before dispatch never has a message enqueued
\* or a handler run for it, and the step in which it fails leaves the
\* worker registry, the registry lock, every inbox and every worker as they
\* were.
C32_FailedRequestTouchesNoWorker ==
  /\ [](\A t \in Tasks :
          (tpc[t] # "idle" /\ FailsBeforeDispatch(treq[t])) =>
            /\ tpc[t] \in {"load_code", "done"}
            /\ \A k \in DOMAIN hlog : hlog[k].t # t)
  /\ [][\A t \in Tasks :
          ReturnsBeforeSend(t) =>
            UNCHANGED <<workers, holders, workerVars, hlog>>]_vars

\* A request with a body that is not UTF-8 was refused while a request was
\* being served and the worker's inbox held nothing for it.
C32_Witness ==
  \E t, u \in Tasks :
    /\ tpc[t] = "done"
    /\ treq[t].body = "invalid"
    /\ tresp[t].status = 500
    /\ tpc[u] = "await"
    /\ wstate[ttarget[u]] = "run"

\* C33: a request that has called AppState::send eventually has returned
\* from it, with the registry lock released.
C33_SendEventuallyReturns ==
  \A t \in Tasks : (tpc[t] = "send") ~> (tpc[t] = "done" /\ t \notin holders)

\* A request sent to a worker that had already exited came back as an
\* error and the registry is unlocked.
C33_Witness ==
  \E t \in Tasks :
    /\ tpc[t] = "done"
    /\ \E k \in DOMAIN hlog : hlog[k].ev = "undelivered" /\ hlog[k].t = t
    /\ tresp[t].status = 500
    /\ LockFree

\* C34: once AppState::new has finished, whenever the coordinator is
\* waiting for an event batch (no reload in progress) each host's registered
\* worker was started with the code of the host's current router snapshot.
C34_WorkerRunsCurrentCode ==
  (stateSet /\ cpc = "watch") =>
    \A h \in Hosts :
      workers[h] # 0 => wcode[workers[h]] = load_full(routers[h]).code

====
